---- MODULE Spec2Model ----
(***************************************************************************)
(* Model of the event-layout routes of GEventos-Backend                    *)
(* (src/routes/eventRoutes.js) over the relational schema of               *)
(* src/schema.sql: GET/PUT /eventos/:eventoID/layout,                      *)
(* DELETE /eventos/:eventoID/areas/:areaID, POST /eventos/:eventoID/asientos*)
(* and POST /areas/lugares/:lugarID/areas (src/routes/seatRoutes.js).      *)
(* Every action is one whole request: the handler from its first statement *)
(* to its response.                                                        *)
(*                                                                         *)
(* JavaScript values: an optional value is a sequence of length 0          *)
(* (undefined / absent / SQL NULL) or 1 (the value).  A table id string    *)
(* "<prefix><n>" is the pair <<prefix, n>>.                                *)
(***************************************************************************)
EXTENDS Integers, Sequences, FiniteSets, TLC

VARIABLES
    areas,        \* table Area:    areaID -> [lugarID, capacidad, tipo]
    seats,        \* table Asiento: asientoID -> [codigo, fila, columna, estado, areaID]
    croquis,      \* table Croquis: eventoID -> configuracion (at most one row per event)
    nextAreaID,   \* sequence behind Area.areaID (SERIAL)
    nextSeatID,   \* sequence behind Asiento.asientoID (SERIAL)
    req,          \* the request being answered
    resp,         \* its response
    pre,          \* the tables as they were when that request arrived
    log,          \* what the handler did inside its transaction (console output)
    nPut,         \* number of PUT layout requests handled
    cl,           \* concurrent handlers: per client, its position, connection and transaction
    docs,         \* table Croquis as rows: croquisID -> [eventoID, configuracion]
    hist,         \* the BEGINs and COMMITs of the concurrent handlers, in order
    nJobs         \* number of requests the concurrent handlers have taken

vars == <<areas, seats, croquis, nextAreaID, nextSeatID, req, resp, pre, log, nPut,
          cl, docs, hist, nJobs>>

----------------------------------------------------------------------------
(* Bounds of the model *)

MaxTables == 2      \* longest configuracionCroquis.tables submitted
MaxSeats == 2       \* longest asientos list submitted
MaxAreaID == 2      \* cap of the Area sequence
MaxSeatID == 2      \* cap of the Asiento sequence
MaxPuts == 1        \* PUT layout requests with an arbitrary body per behaviour
MaxFollowUps == 1   \* PUT layout requests that follow them per behaviour
MaxJobs == 3        \* requests taken by the concurrent handlers per behaviour

(* Program constants *)

MaxRealId == 1000000000     \* the temporary-identifier ceiling
DefaultCapacidad == 50      \* table.capacidad || 50

----------------------------------------------------------------------------
(* JavaScript optional values *)

Undef == <<>>
Num(n) == <<n>>
Str(s) == <<s>>
IsNum(v) == Len(v) = 1
\* an identifier that is a string which is not a numeral, 'temp-<n>': the pair <<"temp-", n>>
IsStrId(v) == Len(v) = 2
Val(v) == v[1]

\* typeof v === 'number' && v > 1000000000
IsBig(v) == IsNum(v) /\ Val(v) > MaxRealId

\* String.prototype.toUpperCase on the seat states the clients send and on the
\* role names found in tokens
ToUpperCase(s) ==
    CASE s = "disponible" -> "DISPONIBLE"
      [] s = "organizador" -> "ORGANIZADOR"
      [] s = "administrador" -> "ADMINISTRADOR"
      [] s = "asistente" -> "ASISTENTE"
      [] s = "ocupado"    -> "OCUPADO"
      [] s = "reservado"  -> "RESERVADO"
      [] s = "bloqueado"  -> "BLOQUEADO"
      [] OTHER            -> s

\* CREATE TYPE estado_asiento / tipo_area
EstadoAsiento == {"DISPONIBLE", "OCUPADO", "RESERVADO", "BLOQUEADO"}
TipoArea == {"GENERAL", "VIP", "ESCENARIO", "RESERVADO"}

\* table ids: 'new-table-<n>' marks a table not yet persisted, `area-${id}` a persisted one
NewTableId(n) == <<"new-table-", n>>
AreaTag(n) == <<"area-", n>>
StartsWithNewTable_AnyPrefix(id) == id # Undef

StartsWithNewTable(id) == id # Undef /\ id[1] = "new-table-"

----------------------------------------------------------------------------
(* Tables Lugar and Evento: read-only for the layout routes *)

Lugares == {1, 2}
EventoLugar == (1 :> 1) @@ (2 :> 1) @@ (3 :> 2)
Eventos == DOMAIN EventoLugar
UnknownEventos == {4}   \* an eventoID with no row in Evento
PutEventos == {1, 3}    \* the events whose layout the clients edit

----------------------------------------------------------------------------
(* Middleware in front of the handlers: authenticateToken, authorizeRoles *)

\* the caller: the Authorization header's token, and the role of its payload
\* ("" when the payload has none)
NoUser == [token |-> "none", role |-> ""]
Organizador == [token |-> "valid", role |-> "ORGANIZADOR"]
Users ==
    [token : {"valid"}, role : {"ORGANIZADOR", "administrador", "ASISTENTE", "asistente", ""}]
    \cup {NoUser, [token |-> "invalid", role |-> "ORGANIZADOR"]}
OtherUsers == Users \ {Organizador}

\* authorizeRoles(['ORGANIZADOR', 'ADMINISTRADOR']) and
\* authorizeRoles(['ORGANIZADOR', 'ADMINISTRADOR', 'ASISTENTE'])
LayoutEditors == {"ORGANIZADOR", "ADMINISTRADOR"}
LayoutReaders == {"ORGANIZADOR", "ADMINISTRADOR", "ASISTENTE"}

\* the status a middleware answers with, or 0 when it calls next()
AuthenticateToken(user) ==
    IF user.token = "none" THEN 401
    ELSE IF user.token = "invalid" THEN 403
    ELSE 0

AuthorizeRoles_NoCheck(roles, user) ==
    IF user.token # "valid" \/ user.role = "" THEN 401 ELSE 0

AuthorizeRoles(roles, user) ==
    IF user.token # "valid" \/ user.role = "" THEN 401      \* !req.user || !req.user.role
    ELSE IF ToUpperCase(user.role) \in {ToUpperCase(role) : role \in roles} THEN 0
    ELSE 403

\* router.<method>(path, authenticateToken, authorizeRoles(roles), handler)
Gate(roles, user) ==
    IF AuthenticateToken(user) # 0 THEN AuthenticateToken(user)
    ELSE AuthorizeRoles(roles, user)

----------------------------------------------------------------------------
(* Requests *)

TempAreaIds == {MaxRealId + 1}
AreaRefs == {Num(n) : n \in 1..MaxAreaID}

\* table entries a client submits: new tables carry the 'new-table-' id, a
\* temporary areaid, or both; the others name an area by its id
TableEntries ==
    [id : {NewTableId(1)}, areaid : {Undef} \cup {Num(t) : t \in TempAreaIds}]
    \cup [id : {<<"mesa-", 1>>}, areaid : AreaRefs \cup {Num(t) : t \in TempAreaIds}]

SeqsUpTo(S, n) == UNION {[1..k -> S] : k \in 0..n}

\* configuracionCroquis: its type, whether its tables field is an array
\* (hasTables), whether it is present without being one (badTables), and the array
NoConfig == [kind |-> "undefined", hasTables |-> FALSE, badTables |-> FALSE, tables |-> <<>>]
\* a configuracionCroquis that is null or not an object
BadConfig == [kind |-> "invalid", hasTables |-> FALSE, badTables |-> FALSE, tables |-> <<>>]
\* a configuracionCroquis whose tables field is a string
BadTablesConfig ==
    [kind |-> "object", hasTables |-> FALSE, badTables |-> TRUE, tables |-> <<>>]
Configs ==
    {NoConfig, BadTablesConfig}
    \cup {[kind |-> "object", hasTables |-> FALSE, badTables |-> FALSE, tables |-> <<>>]}
    \cup {[kind |-> "object", hasTables |-> TRUE, badTables |-> FALSE, tables |-> t] :
            t \in SeqsUpTo(TableEntries, MaxTables)}

NewSeatDescs ==
    [asientoID : {Undef}, isNew : {FALSE}, codigo : {"A1"}, fila : {Undef},
     columna : {Undef}, estado : {Str("disponible")},
     areaID : {Undef} \cup AreaRefs \cup {Num(t) : t \in TempAreaIds},
     areaid : {Undef}]
OldSeatDescs ==
    [asientoID : {Num(n) : n \in 1..MaxSeatID}, isNew : {FALSE}, codigo : {"A1"},
     fila : {Undef}, columna : {Undef}, estado : {Str("ocupado")},
     areaID : {Undef}, areaid : {Undef}]
\* a descriptor that carries a real asientoID together with the isNew marker
MarkedSeatDescs ==
    [asientoID : {Num(1)}, isNew : {TRUE}, codigo : {"A1"},
     fila : {Undef}, columna : {Undef}, estado : {Str("disponible")},
     areaID : {Num(1)}, areaid : {Undef}]
SeatDescs == NewSeatDescs \cup OldSeatDescs \cup MarkedSeatDescs
\* a descriptor of an existing seat that carries another code, row, column and area
MovedSeatDescs ==
    [asientoID : {Num(1)}, isNew : {FALSE}, codigo : {"Z9"}, fila : {Str("F")},
     columna : {Num(7)}, estado : {Str("ocupado")}, areaID : {Num(2)}, areaid : {Num(2)}]
MovedSeatLists == {<<m>> : m \in MovedSeatDescs}
\* a descriptor whose asientoID is a client-side string id
StringSeatDescs ==
    [asientoID : {<<"temp-", 1>>}, isNew : {FALSE}, codigo : {"A1"}, fila : {Undef},
     columna : {Undef}, estado : {Str("disponible")}, areaID : {Num(1)}, areaid : {Undef}]
StringSeatLists == {<<m>> : m \in StringSeatDescs}
SeatLists == SeqsUpTo(SeatDescs, MaxSeats)

\* descriptors without the estado field, alone or after a well-formed new seat
NoEstadoDescs ==
    [asientoID : {Undef, Num(1)}, isNew : {FALSE}, codigo : {"A1"}, fila : {Undef},
     columna : {Undef}, estado : {Undef}, areaID : {Num(1)}, areaid : {Undef}]
NoEstadoLists ==
    {<<m>> : m \in NoEstadoDescs}
    \cup {<<n, m>> : n \in {d \in NewSeatDescs : d.areaID = Num(1)}, m \in NoEstadoDescs}

NoReq == [op |-> "NONE", user |-> NoUser, eventoID |-> 0, areaID |-> 0,
          config |-> NoConfig, isArray |-> TRUE, asientos |-> <<>>]
NoResp == [status |-> 0, hasRow |-> FALSE, layoutConfig |-> NoConfig, seats |-> <<>>,
           detail |-> FALSE]
\* a handler that is not running: no request, no connection, no transaction
\* (beganAt and committedAt are the positions of its BEGIN and COMMIT in hist,
\* seatsAtCommit the event's seats as its COMMIT left them; status, layoutConfig
\* and seats are the response)
Clients == {1, 2}
IdleClient ==
    [pc |-> "idle", op |-> "NONE", eventoID |-> 0, areaID |-> 0, doc |-> NoConfig,
     asientos |-> <<>>, seen |-> FALSE, pend |-> "none", pendArea |-> 0,
     held |-> FALSE, acquired |-> 0, released |-> 0, txn |-> "none",
     skipped |-> {}, error |-> "", beganAt |-> 0, committedAt |-> 0,
     seatsAtCommit |-> <<>>, status |-> 0, message |-> "", layoutConfig |-> NoConfig,
     seats |-> <<>>]
NoLog == [fault |-> FALSE, dirty |-> FALSE, skipped |-> {}, omitted |-> {},
          areaOf |-> <<>>, seatOf |-> <<>>, committed |-> FALSE]

----------------------------------------------------------------------------
(* Queries shared by the handlers *)

\* no request is being handled
Idle == req.op = "NONE"

\* the database: the three tables and the two sequences
DB == [areas |-> areas, seats |-> seats, croquis |-> croquis,
       nextAreaID |-> nextAreaID, nextSeatID |-> nextSeatID]
EmptyDB == [areas |-> <<>>, seats |-> <<>>, croquis |-> <<>>,
            nextAreaID |-> 1, nextSeatID |-> 1]
\* the rows of a database, which a ROLLBACK restores (sequences are not rolled back)
Rows(d) == [areas |-> d.areas, seats |-> d.seats, croquis |-> d.croquis]

\* ascending enumeration of a finite set of integers (ORDER BY ... ASC)
RECURSIVE SortAsc(_)
SortAsc(S) ==
    IF S = {} THEN <<>>
    ELSE LET m == CHOOSE x \in S : \A y \in S : x <= y
         IN <<m>> \o SortAsc(S \ {m})

SeatRow(db, s) ==
    [asientoid |-> s, codigo |-> db.seats[s].codigo, fila |-> db.seats[s].fila,
     columna |-> db.seats[s].columna, estado |-> db.seats[s].estado,
     areaid |-> db.seats[s].areaID]

\* SELECT ... FROM Asiento a JOIN Area ar ... JOIN Evento e ON ar.lugarID = e.lugarID
\* WHERE e.eventoID = $1 ORDER BY a.asientoID ASC
FinalSeats_AllVenues(db, e) ==
    LET order == SortAsc(DOMAIN db.seats)
    IN [k \in DOMAIN order |-> SeatRow(db, order[k])]

FinalSeats(db, e) ==
    LET ids == {s \in DOMAIN db.seats :
                    /\ db.seats[s].areaID \in DOMAIN db.areas
                    /\ e \in Eventos
                    /\ db.areas[db.seats[s].areaID].lugarID = EventoLugar[e]}
        order == SortAsc(ids)
    IN [k \in DOMAIN order |-> SeatRow(db, order[k])]

\* SELECT eventoID, lugarID AS lugarid FROM Evento WHERE eventoID = $1: the status
\* answered when there is no row, 0 when there is one
EventLookup_ServerError(e) == IF e \in Eventos THEN 0 ELSE 500

EventLookup(e) == IF e \in Eventos THEN 0 ELSE 404

\* SELECT configuracion FROM Croquis WHERE eventoID = $1, rows[0] ? configuracion : null
FinalLayout(db, e) ==
    IF e \in DOMAIN db.croquis THEN db.croquis[e] ELSE NoConfig

----------------------------------------------------------------------------
(* PUT /:eventoID/layout *)

IsTempTable_NoCeiling(table) == IsNum(table.areaid) \/ StartsWithNewTable(table.id)

IsTempTable(table) == IsBig(table.areaid) \/ StartsWithNewTable(table.id)

IsNewSeat(asiento) ==
    asiento.asientoID = Undef \/ IsBig(asiento.asientoID) \/ asiento.isNew

\* !areaID || isNaN(parseInt(areaID)) || parseInt(areaID) <= 0
InvalidAreaRef(v) == ~IsNum(v) \/ Val(v) <= 0

RewriteSeats(asientos, tempAreaId, realId) ==
    [k \in DOMAIN asientos |->
        IF asientos[k].areaID = tempAreaId \/ asientos[k].areaid = tempAreaId
        THEN [asientos[k] EXCEPT !.areaID = Num(realId), !.areaid = Num(realId)]
        ELSE asientos[k]]

\* the working state of the handler: its transaction's view of the tables, the
\* request body it mutates in place, and the write statements issued so far
StartTx_DropOmitted(d, r) ==
    [areas |-> d.areas,
     seats |-> [s \in {x \in DOMAIN d.seats :
                            \E k \in DOMAIN r.asientos : r.asientos[k].asientoID = Num(x)}
                    |-> d.seats[s]],
     croquis |-> d.croquis,
     nextAreaID |-> d.nextAreaID, nextSeatID |-> d.nextSeatID,
     tables |-> r.config.tables, asientos |-> r.asientos,
     writes |-> 0, err |-> FALSE, skipped |-> {}, omitted |-> {},
     areaOf |-> [i \in DOMAIN r.config.tables |-> Undef],
     seatOf |-> [k \in DOMAIN r.asientos |-> Undef]]

StartTx(d, r) ==
    [areas |-> d.areas, seats |-> d.seats, croquis |-> d.croquis,
     nextAreaID |-> d.nextAreaID, nextSeatID |-> d.nextSeatID,
     tables |-> r.config.tables, asientos |-> r.asientos,
     writes |-> 0, err |-> FALSE, skipped |-> {}, omitted |-> {},
     areaOf |-> [i \in DOMAIN r.config.tables |-> Undef],
     seatOf |-> [k \in DOMAIN r.asientos |-> Undef]]

\* a write statement throws when the connection fails at it
Throws(tx, failAt) == tx.writes + 1 = failAt

\* one iteration of the loop over configuracionCroquis.tables
AreaStep(i, tx, lugar, failAt) ==
    IF ~IsTempTable(tx.tables[i]) THEN tx
    ELSE IF Throws(tx, failAt) THEN [tx EXCEPT !.err = TRUE]
    ELSE
        LET tempAreaId == tx.tables[i].areaid
            realId == tx.nextAreaID
            row == [lugarID |-> lugar, capacidad |-> DefaultCapacidad, tipo |-> "GENERAL"]
        IN [tx EXCEPT !.areas = @ @@ (realId :> row),
                      !.nextAreaID = @ + 1,
                      !.writes = @ + 1,
                      !.areaOf[i] = Num(realId),
                      !.tables[i] = [@ EXCEPT !.areaid = Num(realId),
                                              !.id = AreaTag(realId)],
                      !.asientos = RewriteSeats(@, tempAreaId, realId)]

RECURSIVE AreaLoop(_, _, _, _)
AreaLoop(i, tx, lugar, failAt) ==
    IF tx.err \/ i > Len(tx.tables) THEN tx
    ELSE CHOOSE out \in {AreaLoop(i + 1, t, lugar, failAt) :
                            t \in {AreaStep(i, tx, lugar, failAt)}} : TRUE

\* UPDATE Croquis ... WHERE eventoID / INSERT INTO Croquis
UpsertCroquis_Always(tx, r, failAt) ==
    IF tx.err THEN tx
    ELSE IF Throws(tx, failAt) THEN [tx EXCEPT !.err = TRUE]
    ELSE [tx EXCEPT
            !.croquis = [e \in DOMAIN @ \cup {r.eventoID} |->
                            IF e = r.eventoID
                            THEN [r.config EXCEPT !.tables = tx.tables]
                            ELSE @[e]],
            !.writes = @ + 1]

UpsertCroquis(tx, r, failAt) ==
    IF tx.err \/ r.config.kind = "undefined" THEN tx
    ELSE IF Throws(tx, failAt) THEN [tx EXCEPT !.err = TRUE]
    ELSE [tx EXCEPT
            !.croquis = [e \in DOMAIN @ \cup {r.eventoID} |->
                            IF e = r.eventoID
                            THEN [r.config EXCEPT !.tables = tx.tables]
                            ELSE @[e]],
            !.writes = @ + 1]

\* SELECT a.asientoID FROM Asiento a JOIN Area ar ... WHERE a.asientoID = $1 AND ar.lugarID = $2
SeatEventCheck_NoVenue(tx, asientoID, lugar) ==
    IsNum(asientoID) /\ Val(asientoID) \in DOMAIN tx.seats

SeatEventCheck(tx, asientoID, lugar) ==
    /\ IsNum(asientoID)
    /\ Val(asientoID) \in DOMAIN tx.seats
    /\ tx.areas[tx.seats[Val(asientoID)].areaID].lugarID = lugar

\* INSERT INTO Asiento (...) VALUES ($1, $2, $3, $4, $5)
InsertSeat(tx, j) ==
    LET asiento == tx.asientos[j] IN
    IF asiento.estado = Undef                               \* TypeError
    THEN [tx EXCEPT !.err = TRUE]
    ELSE IF ToUpperCase(Val(asiento.estado)) \notin EstadoAsiento     \* estado_asiento
    THEN [tx EXCEPT !.err = TRUE]
    ELSE IF Val(asiento.areaID) \notin DOMAIN tx.areas      \* fk_asiento_area
    THEN \* the sequence has advanced when the foreign key is checked
         [tx EXCEPT !.err = TRUE, !.nextSeatID = @ + 1]
    ELSE [tx EXCEPT
            !.seats = @ @@ (tx.nextSeatID :>
                        [codigo |-> asiento.codigo, fila |-> asiento.fila,
                         columna |-> asiento.columna,
                         estado |-> ToUpperCase(Val(asiento.estado)),
                         areaID |-> Val(asiento.areaID)]),
            !.seatOf[j] = Num(tx.nextSeatID),
            !.nextSeatID = @ + 1,
            !.writes = @ + 1]

\* UPDATE Asiento SET estado = $1 WHERE asientoID = $2
UpdateSeat_WithCodigo(tx, j) ==
    LET asiento == tx.asientos[j] IN
    IF asiento.estado = Undef
    THEN [tx EXCEPT !.err = TRUE]
    ELSE IF ToUpperCase(Val(asiento.estado)) \notin EstadoAsiento
    THEN [tx EXCEPT !.err = TRUE]
    ELSE [tx EXCEPT !.seats[Val(asiento.asientoID)].estado =
                            ToUpperCase(Val(asiento.estado)),
                    !.seats[Val(asiento.asientoID)].codigo = asiento.codigo,
                    !.seatOf[j] = asiento.asientoID,
                    !.writes = @ + 1]

UpdateSeat(tx, j) ==
    LET asiento == tx.asientos[j] IN
    IF asiento.estado = Undef                               \* TypeError
    THEN [tx EXCEPT !.err = TRUE]
    ELSE IF ToUpperCase(Val(asiento.estado)) \notin EstadoAsiento
    THEN [tx EXCEPT !.err = TRUE]
    ELSE [tx EXCEPT !.seats[Val(asiento.asientoID)].estado =
                            ToUpperCase(Val(asiento.estado)),
                    !.seatOf[j] = asiento.asientoID,
                    !.writes = @ + 1]

\* one iteration of the loop over asientos
SeatStep(j, tx, lugar, failAt) ==
    LET asiento == tx.asientos[j] IN
    IF IsNewSeat(asiento)
    THEN IF InvalidAreaRef(asiento.areaID)
         THEN [tx EXCEPT !.omitted = @ \cup {j}]
         ELSE IF Throws(tx, failAt) THEN [tx EXCEPT !.err = TRUE]
         ELSE InsertSeat(tx, j)
    ELSE IF IsStrId(asiento.asientoID)
         THEN \* seatEventCheck: invalid input syntax for type integer
              [tx EXCEPT !.err = TRUE]
    ELSE IF SeatEventCheck(tx, asiento.asientoID, lugar)
         THEN IF Throws(tx, failAt) THEN [tx EXCEPT !.err = TRUE]
              ELSE UpdateSeat(tx, j)
         ELSE [tx EXCEPT !.skipped = @ \cup {j}]

RECURSIVE SeatLoop(_, _, _, _)
SeatLoop(j, tx, lugar, failAt) ==
    IF tx.err \/ j > Len(tx.asientos) THEN tx
    ELSE CHOOSE out \in {SeatLoop(j + 1, t, lugar, failAt) :
                            t \in {SeatStep(j, tx, lugar, failAt)}} : TRUE

\* the statements between BEGIN and COMMIT
Reconcile(d, r, failAt) ==
    LET lugar == EventoLugar[r.eventoID]
    IN CHOOSE out \in
        {SeatLoop(1, t2, lugar, failAt) :
            t2 \in {UpsertCroquis(t1, r, failAt) :
                t1 \in {IF r.config.kind = "object" /\ r.config.hasTables
                        THEN AreaLoop(1, StartTx(d, r), lugar, failAt)
                        ELSE StartTx(d, r)}}} : TRUE

OkResp(db, e) ==
    [status |-> 200, hasRow |-> e \in DOMAIN db.croquis,
     layoutConfig |-> FinalLayout(db, e), seats |-> FinalSeats(db, e), detail |-> FALSE]
ErrResp(code, withDetail) == [NoResp EXCEPT !.status = code, !.detail = withDetail]

\* what the transaction did: on COMMIT the seat descriptors it skipped, the area
\* row created for each table entry and the seat row written for each descriptor;
\* on ROLLBACK whether the connection failed and whether writes were undone
CommitLog(tx) ==
    [fault |-> FALSE, dirty |-> FALSE, skipped |-> tx.skipped, omitted |-> tx.omitted,
     areaOf |-> tx.areaOf, seatOf |-> tx.seatOf, committed |-> TRUE]
RollbackLog(tx, failAt) ==
    [NoLog EXCEPT !.fault = failAt > 0, !.dirty = tx.writes > 0]

PutOutcome_NoRollback(e, tx, failAt) ==
    /\ tx.nextAreaID <= MaxAreaID + 1
    /\ tx.nextSeatID <= MaxSeatID + 1
    /\ nextAreaID' = tx.nextAreaID
    /\ nextSeatID' = tx.nextSeatID
    /\ areas' = tx.areas
    /\ seats' = tx.seats
    /\ croquis' = tx.croquis
    /\ resp' = IF tx.err THEN ErrResp(500, TRUE) ELSE OkResp(tx, e)
    /\ log' = IF tx.err THEN RollbackLog(tx, failAt) ELSE CommitLog(tx)

\* what the handler leaves behind and answers, given the transaction's outcome
PutOutcome(e, tx, failAt) ==
    /\ tx.nextAreaID <= MaxAreaID + 1
    /\ tx.nextSeatID <= MaxSeatID + 1
    /\ nextAreaID' = tx.nextAreaID
    /\ nextSeatID' = tx.nextSeatID
    /\ IF tx.err
       THEN \* catch: ROLLBACK, 500
            /\ UNCHANGED <<areas, seats, croquis>>
            /\ resp' = ErrResp(500, TRUE)
            /\ log' = RollbackLog(tx, failAt)
       ELSE \* COMMIT, re-read
            /\ areas' = tx.areas
            /\ seats' = tx.seats
            /\ croquis' = tx.croquis
            /\ resp' = OkResp(tx, e)
            /\ log' = CommitLog(tx)

\* the payload validations in front of the transaction
ValidPayload_NoSeatListCheck(config, isArray) == config.kind # "invalid"

ValidPayload(config, isArray) == config.kind # "invalid" /\ isArray

\* the route, from the middleware and the event lookup to the response
PutLayout(user, e, config, isArray, asientos) ==
    /\ Idle
    /\ nPut < MaxPuts + MaxFollowUps
    /\ nPut' = IF Gate(LayoutEditors, user) = 0 THEN nPut + 1 ELSE nPut
    /\ UNCHANGED <<cl, docs, hist, nJobs>>
    /\ pre' = DB
    /\ \E r \in {[op |-> "PUT", user |-> user, eventoID |-> e, areaID |-> 0,
                   config |-> config, isArray |-> isArray, asientos |-> asientos]} :
        /\ req' = r
        /\ IF Gate(LayoutEditors, user) # 0
           THEN /\ resp' = ErrResp(Gate(LayoutEditors, user), FALSE)
                /\ log' = NoLog
                /\ UNCHANGED <<areas, seats, croquis, nextAreaID, nextSeatID>>
           ELSE IF EventLookup(e) # 0
           THEN /\ resp' = ErrResp(EventLookup(e), FALSE)
                /\ log' = NoLog
                /\ UNCHANGED <<areas, seats, croquis, nextAreaID, nextSeatID>>
           ELSE IF ~ValidPayload(config, isArray)
           THEN /\ resp' = ErrResp(400, FALSE)
                /\ log' = NoLog
                /\ UNCHANGED <<areas, seats, croquis, nextAreaID, nextSeatID>>
           ELSE \E tx0 \in {Reconcile(DB, r, 0)} :
                    \* the connection may fail at any write statement the handler issues
                    \E failAt \in 0..tx0.writes :
                        IF failAt = 0
                        THEN PutOutcome(e, tx0, 0)
                        ELSE \E tx \in {Reconcile(DB, r, failAt)} : PutOutcome(e, tx, failAt)

\* a body that creates an area, a layout document and a seat when it is reconciled
NewTableConfig ==
    [kind |-> "object", hasTables |-> TRUE, badTables |-> FALSE,
     tables |-> <<[id |-> NewTableId(1), areaid |-> Num(MaxRealId + 1)]>>]
NewTableSeats ==
    <<[asientoID |-> Undef, isNew |-> FALSE, codigo |-> "A1", fila |-> Undef,
       columna |-> Undef, estado |-> Str("disponible"), areaID |-> Num(MaxRealId + 1),
       areaid |-> Undef]>>

\* the bodies of a client that edits a layout it has saved before: it sends state
\* changes of seats, without a document or with the document the server holds
FollowUpSeatLists == {<<>>} \cup {<<d>> : d \in OldSeatDescs}
FollowUpRequest ==
    /\ nPut >= MaxPuts
    /\ \E e \in PutEventos, asientos \in FollowUpSeatLists :
            \/ PutLayout(Organizador, e, NoConfig, TRUE, asientos)
            \/ /\ e \in DOMAIN croquis
               /\ PutLayout(Organizador, e, croquis[e], TRUE, asientos)

FirstRequest ==
    /\ nPut < MaxPuts
    /\ \/ \E e \in PutEventos, config \in Configs, asientos \in SeatLists :
               PutLayout(Organizador, e, config, TRUE, asientos)
       \/ \E e \in PutEventos, config \in {NoConfig, NewTableConfig},
             asientos \in NoEstadoLists :
               PutLayout(Organizador, e, config, TRUE, asientos)
       \/ \E e \in PutEventos, config \in {NoConfig, NewTableConfig},
             asientos \in MovedSeatLists :
               PutLayout(Organizador, e, config, TRUE, asientos)
       \/ \E e \in PutEventos, asientos \in StringSeatLists :
               PutLayout(Organizador, e, NoConfig, TRUE, asientos)
       \/ \E e \in PutEventos : PutLayout(Organizador, e, BadConfig, TRUE, NewTableSeats)
       \/ \E e \in PutEventos : PutLayout(Organizador, e, NewTableConfig, FALSE, <<>>)
       \/ \E e \in UnknownEventos :
               PutLayout(Organizador, e, NewTableConfig, TRUE, NewTableSeats)
       \/ \E user \in OtherUsers :
               PutLayout(user, 1, NewTableConfig, TRUE, NewTableSeats)

PutRequest == FirstRequest \/ FollowUpRequest

----------------------------------------------------------------------------
(* GET /:eventoID/layout *)

\* SELECT ... FROM Asiento a JOIN Area ar ... JOIN Lugar l ... JOIN Evento e ON l.lugarID = e.lugarID
\* WHERE e.eventoID = $1 ORDER BY a.asientoID ASC
GetSeats(db, e) ==
    LET ids == {s \in DOMAIN db.seats :
                    /\ db.seats[s].areaID \in DOMAIN db.areas
                    /\ db.areas[db.seats[s].areaID].lugarID \in Lugares
                    /\ e \in Eventos
                    /\ db.areas[db.seats[s].areaID].lugarID = EventoLugar[e]}
        order == SortAsc(ids)
    IN [k \in DOMAIN order |-> SeatRow(db, order[k])]

GetResponse(db, e) ==
    IF EventLookup(e) # 0 THEN ErrResp(EventLookup(e), FALSE)
    ELSE [status |-> 200, hasRow |-> e \in DOMAIN db.croquis,
          layoutConfig |-> IF e \in DOMAIN db.croquis THEN db.croquis[e] ELSE NoConfig,
          seats |-> GetSeats(db, e), detail |-> FALSE]

GetLayout(user, e) ==
    /\ Idle
    /\ req' = [NoReq EXCEPT !.op = "GET", !.user = user, !.eventoID = e]
    /\ resp' = IF Gate(LayoutReaders, user) # 0
               THEN ErrResp(Gate(LayoutReaders, user), FALSE)
               ELSE GetResponse(DB, e)
    /\ pre' = DB
    /\ log' = NoLog
    /\ UNCHANGED <<areas, seats, croquis, nextAreaID, nextSeatID, nPut, cl, docs, hist, nJobs>>

GetRequest ==
    \/ \E e \in Eventos \cup UnknownEventos : GetLayout(Organizador, e)
    \/ \E user \in OtherUsers : GetLayout(user, 1)

----------------------------------------------------------------------------
(* DELETE /:eventoID/areas/:areaID *)

\* currentConfig.tables.filter(table => table.areaid !== parseInt(areaID))
FilterTables_NoParseInt(tables, a) == tables

FilterTables(tables, a) == SelectSeq(tables, LAMBDA t : t.areaid # Num(a))

\* SELECT ar.areaID FROM Area ar JOIN Lugar l ... JOIN Evento e ... WHERE ar.areaID = $1 AND e.eventoID = $2
AreaCheck_NoVenue(e, a) == a \in DOMAIN areas

AreaCheck(e, a) ==
    /\ a \in DOMAIN areas
    /\ areas[a].lugarID \in Lugares
    /\ areas[a].lugarID = EventoLugar[e]

\* DELETE FROM Area WHERE areaID = $1, with fk_asiento_area ON DELETE CASCADE
AreasWithout(a) == [x \in DOMAIN areas \ {a} |-> areas[x]]
SeatsWithoutArea(a) ==
    [x \in {y \in DOMAIN seats : seats[y].areaID # a} |-> seats[x]]

CroquisAfterDelete_AllEvents(e, a) ==
    [x \in DOMAIN croquis |->
        IF croquis[x].kind = "object" /\ croquis[x].hasTables
        THEN [croquis[x] EXCEPT !.tables = FilterTables(@, a)]
        ELSE croquis[x]]

CroquisAfterDelete(e, a) ==
    IF e \in DOMAIN croquis /\ croquis[e].kind = "object" /\ croquis[e].hasTables
    THEN [croquis EXCEPT ![e].tables = FilterTables(@, a)]
    ELSE croquis

\* rows[0] ? rows[0].configuracion : { tables: [] }
DeleteResp(db, e) ==
    [status |-> 200, hasRow |-> e \in DOMAIN db.croquis,
     layoutConfig |-> IF e \in DOMAIN db.croquis THEN db.croquis[e]
                      ELSE [kind |-> "object", hasTables |-> TRUE, badTables |-> FALSE,
                            tables |-> <<>>],
     seats |-> FinalSeats(db, e), detail |-> FALSE]

DeleteArea(user, e, a) ==
    /\ Idle
    /\ req' = [NoReq EXCEPT !.op = "DELETE", !.user = user, !.eventoID = e, !.areaID = a]
    /\ pre' = DB
    /\ log' = NoLog
    /\ UNCHANGED <<nextAreaID, nextSeatID, nPut, cl, docs, hist, nJobs>>
    /\ IF Gate(LayoutEditors, user) # 0
       THEN /\ resp' = ErrResp(Gate(LayoutEditors, user), FALSE)
            /\ UNCHANGED <<areas, seats, croquis>>
       ELSE IF e <= 0 \/ a <= 0
       THEN /\ resp' = ErrResp(400, FALSE)
            /\ UNCHANGED <<areas, seats, croquis>>
       ELSE IF e \notin Eventos \/ ~AreaCheck(e, a)
       THEN \* ROLLBACK, 404
            /\ resp' = ErrResp(404, FALSE)
            /\ UNCHANGED <<areas, seats, croquis>>
       ELSE /\ areas' = AreasWithout(a)
            /\ seats' = SeatsWithoutArea(a)
            /\ croquis' = CroquisAfterDelete(e, a)
            /\ resp' = DeleteResp([areas |-> AreasWithout(a),
                                   seats |-> SeatsWithoutArea(a),
                                   croquis |-> CroquisAfterDelete(e, a)], e)

\* an event that shares its venue with an event whose layout is edited
SiblingEventos == {e \in Eventos \ PutEventos : \E p \in PutEventos : EventoLugar[p] = EventoLugar[e]}

DeleteRequest ==
    \/ \E e \in PutEventos \cup UnknownEventos, a \in 0..MaxAreaID :
            DeleteArea(Organizador, e, a)
    \/ \E e \in SiblingEventos, a \in 1..MaxAreaID : DeleteArea(Organizador, e, a)
    \/ \E user \in OtherUsers, e \in PutEventos, a \in 1..MaxAreaID :
            DeleteArea(user, e, a)

----------------------------------------------------------------------------
(* POST /areas/lugares/:lugarID/areas (seatRoutes.js) and                  *)
(* POST /:eventoID/asientos: the direct routes that create areas and seats *)

AreaRouteLugares == {2}

PostArea(lugar, capacidad, tipo) ==
    /\ Idle
    /\ lugar \in Lugares
    /\ capacidad > 0
    /\ ToUpperCase(tipo) \in TipoArea
    /\ nextAreaID <= MaxAreaID
    /\ areas' = areas @@ (nextAreaID :>
                    [lugarID |-> lugar, capacidad |-> capacidad, tipo |-> ToUpperCase(tipo)])
    /\ nextAreaID' = nextAreaID + 1
    /\ req' = [NoReq EXCEPT !.op = "POST_AREA", !.user = Organizador, !.areaID = nextAreaID]
    /\ resp' = [NoResp EXCEPT !.status = 201]
    /\ pre' = DB
    /\ log' = NoLog
    /\ UNCHANGED <<seats, croquis, nextSeatID, nPut, cl, docs, hist, nJobs>>

PostAreaRequest == \E lugar \in AreaRouteLugares : PostArea(lugar, 8, "VIP")

PostAsiento(e, a, codigo, estado) ==
    /\ Idle
    /\ a > 0
    /\ ToUpperCase(estado) \in EstadoAsiento
    /\ e \in Eventos
    /\ req' = [NoReq EXCEPT !.op = "POST_ASIENTO", !.user = Organizador, !.eventoID = e,
                            !.areaID = a]
    /\ pre' = DB
    /\ log' = NoLog
    /\ UNCHANGED <<areas, croquis, nextAreaID, nPut, cl, docs, hist, nJobs>>
    /\ IF a \in DOMAIN areas /\ areas[a].lugarID = EventoLugar[e]
       THEN /\ nextSeatID <= MaxSeatID
            /\ seats' = seats @@ (nextSeatID :>
                            [codigo |-> codigo, fila |-> Undef, columna |-> Undef,
                             estado |-> ToUpperCase(estado), areaID |-> a])
            /\ nextSeatID' = nextSeatID + 1
            /\ resp' = [NoResp EXCEPT !.status = 201]
       ELSE \* ROLLBACK, 400
            /\ resp' = ErrResp(400, FALSE)
            /\ UNCHANGED <<seats, nextSeatID>>

PostAsientoRequest ==
    \E e \in PutEventos, a \in 1..MaxAreaID : PostAsiento(e, a, "B1", "disponible")

----------------------------------------------------------------------------
(* res.status(...).json(...): the response leaves and the request is over *)

Deliver ==
    /\ req.op # "NONE"
    /\ req' = NoReq
    /\ resp' = NoResp
    /\ pre' = EmptyDB
    /\ log' = NoLog
    /\ UNCHANGED <<areas, seats, croquis, nextAreaID, nextSeatID, nPut, cl, docs, hist, nJobs>>

----------------------------------------------------------------------------

Init ==
    /\ areas = <<>>
    /\ seats = <<>>
    /\ croquis = <<>>
    /\ nextAreaID = 1
    /\ nextSeatID = 1
    /\ req = NoReq
    /\ resp = NoResp
    /\ pre = EmptyDB
    /\ log = NoLog
    /\ nPut = 0
    /\ cl = [c \in Clients |-> IdleClient]
    /\ docs = <<>>
    /\ hist = <<>>
    /\ nJobs = 0

Next ==
    \/ PutRequest
    \/ GetRequest
    \/ DeleteRequest
    \/ PostAreaRequest
    \/ PostAsientoRequest
    \/ Deliver

Spec == Init /\ [][Next]_vars

----------------------------------------------------------------------------
(* Concurrent PUT layout and DELETE area requests.  Each client runs its     *)
(* handler one statement at a time on its own pooled connection; statements *)
(* of different transactions interleave under READ COMMITTED: a transaction *)
(* sees the rows committed so far, its writes are applied at COMMIT, and a   *)
(* write to a row another open transaction has written waits for it.        *)
(* The documents submitted here hold no new table, so the area loop issues  *)
(* no statement, and the seat lists name no existing seat.                  *)

DocA == [kind |-> "object", hasTables |-> TRUE, badTables |-> FALSE,
         tables |-> <<[id |-> <<"mesa-", 1>>, areaid |-> Num(1)]>>]
DocB == [kind |-> "object", hasTables |-> TRUE, badTables |-> FALSE,
         tables |-> <<[id |-> <<"mesa-", 1>>, areaid |-> Num(2)]>>]
JobDocs == {DocA, DocB}
JobSeatLists ==
    {<<>>, <<[asientoID |-> Num(2), isNew |-> FALSE, codigo |-> "A1", fila |-> Undef,
              columna |-> Undef, estado |-> Str("ocupado"), areaID |-> Undef,
              areaid |-> Undef]>>}
JobEventos == {1, 4}
JobAreas == {1, 2}

\* the rows of Croquis for an event
RowsOf(e) == {id \in DOMAIN docs : docs[id].eventoID = e}

\* eventoID INT UNIQUE NOT NULL: an INSERT finds a row with the same eventoID
UniqueViolation_NoConstraint(e) == FALSE

UniqueViolation(e) == RowsOf(e) # {}

\* UPDATE Croquis SET configuracion = $1 ... on one row
UpdateRow_KeepExisting(row, doc) == row

UpdateRow(row, doc) == [row EXCEPT !.configuracion = doc]

\* another open transaction holds an uncommitted write to the event's Croquis row
\* (or to its unique-index entry), respectively to the Area row
AreaLocked_NoLock(c, a) == FALSE

CroquisLocked(c, e) ==
    \E o \in Clients \ {c} :
        cl[o].txn = "open" /\ cl[o].pend # "none" /\ cl[o].eventoID = e
AreaLocked(c, a) ==
    \E o \in Clients \ {c} : cl[o].txn = "open" /\ cl[o].pendArea = a

\* await client.query('ROLLBACK'); return res.status(code).json(...)
EarlyReturn(r, code, message) ==
    [r EXCEPT !.txn = "rolledback", !.pend = "none", !.pendArea = 0,
              !.status = code, !.message = message, !.pc = "finally"]

\* finally { client.release(); }
FinallyRelease_Leak(r) == [r EXCEPT !.pc = "done"]

FinallyRelease(r) ==
    [r EXCEPT !.held = FALSE, !.released = @ + 1, !.pc = "done"]

ConcFrame == UNCHANGED <<croquis, nextAreaID, nextSeatID, req, resp, pre, log, nPut>>

\* a PUT layout request arrives: event lookup, payload accepted
PutStart(c, e, doc, asientos) ==
    /\ cl[c].pc \in {"idle", "done"}
    /\ nJobs < MaxJobs
    /\ nJobs' = nJobs + 1
    /\ cl' = [cl EXCEPT ![c] =
                [IdleClient EXCEPT !.op = "PUT", !.eventoID = e, !.doc = doc,
                                   !.asientos = asientos,
                                   !.status = EventLookup(e),
                                   !.pc = IF EventLookup(e) # 0 THEN "done" ELSE "connect"]]
    /\ UNCHANGED <<areas, seats, docs, hist>>
    /\ ConcFrame

\* a DELETE area request with well-formed ids arrives
DeleteStart(c, e, a) ==
    /\ cl[c].pc \in {"idle", "done"}
    /\ nJobs < MaxJobs
    /\ nJobs' = nJobs + 1
    /\ cl' = [cl EXCEPT ![c] =
                [IdleClient EXCEPT !.op = "DELETE", !.eventoID = e, !.areaID = a,
                                   !.pc = "connect"]]
    /\ UNCHANGED <<areas, seats, docs, hist>>
    /\ ConcFrame

\* const client = await pool.connect()
Connect(c) ==
    /\ cl[c].pc = "connect"
    /\ cl' = [cl EXCEPT ![c].held = TRUE, ![c].acquired = @ + 1, ![c].pc = "begin"]
    /\ UNCHANGED <<areas, seats, docs, hist, nJobs>>
    /\ ConcFrame

\* await client.query('BEGIN')
Begin(c) ==
    /\ cl[c].pc = "begin"
    /\ cl' = [cl EXCEPT ![c].txn = "open", ![c].beganAt = Len(hist) + 1,
                        ![c].pc = IF cl[c].op = "PUT" THEN "croquisCheck" ELSE "eventCheck"]
    /\ hist' = Append(hist, <<"begin", c>>)
    /\ UNCHANGED <<areas, seats, docs, nJobs>>
    /\ ConcFrame

\* SELECT croquisID FROM Croquis WHERE eventoID = $1
CroquisCheck(c) ==
    /\ cl[c].pc = "croquisCheck"
    /\ cl' = [cl EXCEPT ![c].seen = RowsOf(cl[c].eventoID) # {},
                        ![c].pc = IF cl[c].doc.kind = "undefined" THEN "seats" ELSE "upsert"]
    /\ UNCHANGED <<areas, seats, docs, hist, nJobs>>
    /\ ConcFrame

\* croquisCheck.rows.length > 0 ? UPDATE Croquis ... : INSERT INTO Croquis ...
Upsert(c) ==
    /\ cl[c].pc = "upsert"
    /\ ~CroquisLocked(c, cl[c].eventoID)
    /\ cl' = [cl EXCEPT ![c] =
                IF cl[c].seen
                THEN [@ EXCEPT !.pend = "update",
                               !.pc = IF cl[c].op = "PUT" THEN "seats" ELSE "commit"]
                ELSE IF UniqueViolation(cl[c].eventoID)
                THEN [@ EXCEPT !.error = "duplicate key", !.pc = "catch"]
                ELSE [@ EXCEPT !.pend = "insert", !.pc = "seats"]]
    /\ UNCHANGED <<areas, seats, docs, hist, nJobs>>
    /\ ConcFrame

\* for (const asiento of asientos) { ... }
SeatsStep(c) ==
    /\ cl[c].pc = "seats"
    /\ \E tx \in {SeatLoop(1, StartTx(DB, [config |-> cl[c].doc, asientos |-> cl[c].asientos]),
                           EventoLugar[cl[c].eventoID], 0)} :
            cl' = [cl EXCEPT ![c].skipped = tx.skipped,
                             ![c].error = IF tx.err THEN "seat statement" ELSE "",
                             ![c].pc = IF tx.err THEN "catch" ELSE "commit"]
    /\ UNCHANGED <<areas, seats, docs, hist, nJobs>>
    /\ ConcFrame

\* SELECT eventoID FROM Evento WHERE eventoID = $1
EventCheck(c) ==
    /\ cl[c].pc = "eventCheck"
    /\ cl' = [cl EXCEPT ![c] =
                IF cl[c].eventoID \notin Eventos
                THEN EarlyReturn(@, 404, "Evento no encontrado.")
                ELSE [@ EXCEPT !.pc = "areaCheck"]]
    /\ UNCHANGED <<areas, seats, docs, hist, nJobs>>
    /\ ConcFrame

\* SELECT ar.areaID ... WHERE ar.areaID = $1 AND e.eventoID = $2
AreaCheckStep(c) ==
    /\ cl[c].pc = "areaCheck"
    /\ cl' = [cl EXCEPT ![c] =
                IF ~AreaCheck(cl[c].eventoID, cl[c].areaID)
                THEN EarlyReturn(@, 404, "Area no encontrada o no pertenece al evento.")
                ELSE [@ EXCEPT !.pc = "deleteArea"]]
    /\ UNCHANGED <<areas, seats, docs, hist, nJobs>>
    /\ ConcFrame

\* DELETE FROM Area WHERE areaID = $1 RETURNING areaID; rowCount === 0 -> 404
DeleteAreaStmt(c) ==
    /\ cl[c].pc = "deleteArea"
    /\ ~AreaLocked(c, cl[c].areaID)
    /\ cl' = [cl EXCEPT ![c] =
                IF cl[c].areaID \notin DOMAIN areas
                THEN EarlyReturn(@, 404, "No se pudo eliminar el Area.")
                ELSE [@ EXCEPT !.pendArea = cl[c].areaID, !.pc = "croquisRead"]]
    /\ UNCHANGED <<areas, seats, docs, hist, nJobs>>
    /\ ConcFrame

\* SELECT croquisID, configuracion FROM Croquis WHERE eventoID = $1, and the filter
CroquisRead(c) ==
    /\ cl[c].pc = "croquisRead"
    /\ cl' = [cl EXCEPT ![c] =
                IF /\ RowsOf(cl[c].eventoID) # {}
                   /\ docs[CHOOSE id \in RowsOf(cl[c].eventoID) : TRUE].configuracion.hasTables
                   /\ ~docs[CHOOSE id \in RowsOf(cl[c].eventoID) : TRUE].configuracion.badTables
                THEN [@ EXCEPT
                        !.seen = TRUE,
                        !.doc = [docs[CHOOSE id \in RowsOf(cl[c].eventoID) : TRUE].configuracion
                                    EXCEPT !.tables = FilterTables(@, cl[c].areaID)],
                        !.pc = "upsert"]
                ELSE [@ EXCEPT !.pc = "commit"]]
    /\ UNCHANGED <<areas, seats, docs, hist, nJobs>>
    /\ ConcFrame

\* await client.query('COMMIT'): the transaction's writes become the committed rows
Commit(c) ==
    /\ cl[c].pc = "commit"
    /\ docs' = IF cl[c].pend = "insert"
               THEN docs @@ ((Len(docs) + 1) :>
                        [eventoID |-> cl[c].eventoID, configuracion |-> cl[c].doc])
               ELSE IF cl[c].pend = "update"
               THEN [id \in DOMAIN docs |->
                        IF docs[id].eventoID = cl[c].eventoID
                        THEN UpdateRow(docs[id], cl[c].doc) ELSE docs[id]]
               ELSE docs
    /\ areas' = IF cl[c].pendArea # 0 THEN AreasWithout(cl[c].pendArea) ELSE areas
    /\ seats' = IF cl[c].pendArea # 0 THEN SeatsWithoutArea(cl[c].pendArea) ELSE seats
    /\ cl' = [cl EXCEPT ![c].txn = "committed", ![c].pend = "none", ![c].pendArea = 0,
                        ![c].committedAt = Len(hist) + 1,
                        ![c].seatsAtCommit =
                            FinalSeats([areas |-> areas', seats |-> seats'], cl[c].eventoID),
                        ![c].pc = "reread"]
    /\ hist' = Append(hist, <<"commit", c>>)
    /\ UNCHANGED nJobs
    /\ ConcFrame

\* the re-read of layout and seats, and res.status(200).json(...)
Respond(c) ==
    /\ cl[c].pc = "reread"
    /\ cl' = [cl EXCEPT
                ![c].status = 200,
                ![c].layoutConfig =
                    IF RowsOf(cl[c].eventoID) # {}
                    THEN docs[CHOOSE id \in RowsOf(cl[c].eventoID) : TRUE].configuracion
                    ELSE IF cl[c].op = "PUT" THEN NoConfig
                    ELSE [kind |-> "object", hasTables |-> TRUE, badTables |-> FALSE,
                          tables |-> <<>>],
                ![c].seats = FinalSeats([areas |-> areas, seats |-> seats], cl[c].eventoID),
                ![c].pc = "finally"]
    /\ UNCHANGED <<areas, seats, docs, hist, nJobs>>
    /\ ConcFrame

\* a statement of the try block rejects (connection error, statement error)
Throw(c) ==
    /\ cl[c].pc \in {"begin", "croquisCheck", "upsert", "eventCheck", "areaCheck",
                     "deleteArea", "croquisRead", "commit", "reread"}
    /\ cl' = [cl EXCEPT ![c].error = "rejected", ![c].pc = "catch"]
    /\ UNCHANGED <<areas, seats, docs, hist, nJobs>>
    /\ ConcFrame

\* catch (e) { await client.query('ROLLBACK'); res.status(500).json(...) }
Catch(c) ==
    /\ cl[c].pc = "catch"
    /\ cl' = [cl EXCEPT ![c].txn = IF @ = "open" THEN "rolledback" ELSE @,
                        ![c].pend = "none", ![c].pendArea = 0,
                        ![c].status = 500, ![c].pc = "finally"]
    /\ UNCHANGED <<areas, seats, docs, hist, nJobs>>
    /\ ConcFrame

Finally(c) ==
    /\ cl[c].pc = "finally"
    /\ cl' = [cl EXCEPT ![c] = FinallyRelease(@)]
    /\ UNCHANGED <<areas, seats, docs, hist, nJobs>>
    /\ ConcFrame

\* the statements a running handler executes when nothing rejects
Proceed(c) ==
    \/ Connect(c) \/ Begin(c) \/ CroquisCheck(c) \/ Upsert(c) \/ SeatsStep(c)
    \/ EventCheck(c) \/ AreaCheckStep(c) \/ DeleteAreaStmt(c) \/ CroquisRead(c)
    \/ Commit(c) \/ Respond(c) \/ Catch(c) \/ Finally(c)

\* area 1 of venue 1 exists with seat 1; no layout document
SeedAreas == (1 :> [lugarID |-> 1, capacidad |-> DefaultCapacidad, tipo |-> "GENERAL"])
SeedSeats == (1 :> [codigo |-> "B1", fila |-> Undef, columna |-> Undef,
                    estado |-> "DISPONIBLE", areaID |-> 1])
ConcurrentInit ==
    /\ areas = SeedAreas
    /\ seats = SeedSeats
    /\ croquis = <<>>
    /\ nextAreaID = 2
    /\ nextSeatID = 2
    /\ req = NoReq
    /\ resp = NoResp
    /\ pre = EmptyDB
    /\ log = NoLog
    /\ nPut = 0
    /\ cl = [c \in Clients |-> IdleClient]
    /\ docs = <<>>
    /\ hist = <<>>
    /\ nJobs = 0

ConcurrentNext ==
    \E c \in Clients :
        \/ \E e \in JobEventos, doc \in JobDocs, asientos \in JobSeatLists :
                PutStart(c, e, doc, asientos)
        \/ \E e \in JobEventos, a \in JobAreas : DeleteStart(c, e, a)
        \/ Proceed(c)
        \/ Throw(c)

\* a handler that can execute its next statement eventually does
ConcurrentSpec ==
    ConcurrentInit /\ [][ConcurrentNext]_vars /\ \A c \in Clients : WF_vars(Proceed(c))

----------------------------------------------------------------------------
(* Vocabulary of the properties *)

\* the caller of the request passed the middleware of the layout-editing routes
Admitted == Gate(LayoutEditors, req.user) = 0
PutDone == req.op = "PUT" /\ resp.status # 0
PutOk == req.op = "PUT" /\ resp.status = 200
DeleteOk == req.op = "DELETE" /\ resp.status = 200

\* the table entries the client submitted, and the ones persisted for its event
Submitted == IF req.config.kind = "object" /\ req.config.hasTables
             THEN req.config.tables ELSE <<>>
Persisted == croquis[req.eventoID].tables

\* a table entry flagged as temporary: numeric areaid > 1000000000, or id 'new-table-...'
Flagged(t) == (IsNum(t.areaid) /\ Val(t.areaid) > MaxRealId)
              \/ (t.id # Undef /\ t.id[1] = "new-table-")
FlaggedEntries == {i \in DOMAIN Submitted : Flagged(Submitted[i])}

\* a seat descriptor of a seat that does not exist yet
NewDesc(a) == a.asientoID = Undef \/ a.isNew
              \/ (IsNum(a.asientoID) /\ Val(a.asientoID) > MaxRealId)
\* a seat descriptor that references area identifier v
RefersTo(a, v) == a.areaID = v \/ a.areaid = v
\* the seat row written for descriptor k of the request
HasSeat(k) == log.seatOf[k] # Undef
SeatOf(k) == seats[Val(log.seatOf[k])]

----------------------------------------------------------------------------
\* C1: after a successful PUT layout, for every temporary area identifier T of the
\* submitted document, all table entries that carried T and all seats whose
\* descriptor referenced T are under one and the same real area.
C1_OneAreaPerTempId ==
    PutOk /\ FlaggedEntries # {} =>
        \A T \in {Submitted[i].areaid : i \in {j \in FlaggedEntries : IsNum(Submitted[j].areaid)}} :
            \E R \in DOMAIN areas :
                /\ \A i \in FlaggedEntries :
                        Submitted[i].areaid = T => Persisted[i].areaid = Num(R)
                /\ \A k \in DOMAIN req.asientos :
                        RefersTo(req.asientos[k], T) /\ HasSeat(k) => SeatOf(k).areaID = R

\* C2: after a successful PUT layout, each flagged table entry has exactly one new
\* Area row of its own in the event's venue, the persisted and returned entry carries
\* that row's id as areaid and "area-<id>" as id, and each new seat that referenced
\* the entry's temporary id is created under that area with its state upper-cased.
C2_NewAreaPerFlaggedEntry ==
    PutOk /\ FlaggedEntries # {} =>
        /\ DOMAIN areas \ DOMAIN pre.areas
                = {Val(log.areaOf[i]) : i \in {j \in FlaggedEntries : log.areaOf[j] # Undef}}
        /\ \A i \in FlaggedEntries :
            /\ log.areaOf[i] # Undef
            /\ \A j \in FlaggedEntries : j # i => log.areaOf[j] # log.areaOf[i]
            /\ LET R == Val(log.areaOf[i]) IN
                /\ R \in DOMAIN areas \ DOMAIN pre.areas
                /\ areas[R].lugarID = EventoLugar[req.eventoID]
                /\ Persisted[i].areaid = Num(R)
                /\ Persisted[i].id = AreaTag(R)
                /\ resp.layoutConfig.tables[i] = Persisted[i]
                /\ \A k \in DOMAIN req.asientos :
                        /\ NewDesc(req.asientos[k])
                        /\ IsNum(Submitted[i].areaid)
                        /\ RefersTo(req.asientos[k], Submitted[i].areaid)
                        => /\ HasSeat(k)
                           /\ SeatOf(k).areaID = R
                           /\ SeatOf(k).estado = ToUpperCase(Val(req.asientos[k].estado))

\* C3: a PUT layout whose document has no flagged table entry and whose seat list
\* holds only descriptors of existing seats (a real asientoID, no isNew marker)
\* leaves the sets of area identifiers and of seat identifiers as they were.
OnlyUpdates ==
    \A k \in DOMAIN req.asientos :
        /\ IsNum(req.asientos[k].asientoID)
        /\ Val(req.asientos[k].asientoID) <= MaxRealId
        /\ ~req.asientos[k].isNew
C3_UpdatesCreateNoRows ==
    PutDone /\ FlaggedEntries = {} /\ OnlyUpdates =>
        /\ DOMAIN areas = DOMAIN pre.areas
        /\ DOMAIN seats = DOMAIN pre.seats
C3_Witness ==
    /\ PutOk /\ FlaggedEntries = {} /\ OnlyUpdates
    /\ Len(Submitted) = 2
    /\ Len(req.asientos) = 2
    /\ \E s \in DOMAIN seats : seats[s].estado # pre.seats[s].estado

\* C4: a successful DELETE of area A for event E removes the area row and every seat
\* of that area, and removes from E's layout document exactly the table entries whose
\* areaid is A: the other entries stay, unchanged and in the same order.
RECURSIVE OthersInOrder(_, _)
OthersInOrder(tables, a) ==
    IF tables = <<>> THEN <<>>
    ELSE IF Head(tables).areaid = Num(a)
         THEN OthersInOrder(Tail(tables), a)
         ELSE <<Head(tables)>> \o OthersInOrder(Tail(tables), a)
C4_DeleteRemovesAreaSeatsEntries ==
    DeleteOk =>
        /\ req.areaID \in DOMAIN pre.areas
        /\ DOMAIN areas = DOMAIN pre.areas \ {req.areaID}
        /\ \A s \in DOMAIN pre.seats :
                IF pre.seats[s].areaID = req.areaID
                THEN s \notin DOMAIN seats
                ELSE s \in DOMAIN seats /\ seats[s] = pre.seats[s]
        /\ DOMAIN seats \subseteq DOMAIN pre.seats
        /\ DOMAIN croquis = DOMAIN pre.croquis
        /\ \A e \in DOMAIN croquis \ {req.eventoID} : croquis[e] = pre.croquis[e]
        /\ req.eventoID \in DOMAIN pre.croquis /\ pre.croquis[req.eventoID].hasTables =>
                croquis[req.eventoID].tables
                    = OthersInOrder(pre.croquis[req.eventoID].tables, req.areaID)
        /\ req.eventoID \in DOMAIN pre.croquis /\ ~pre.croquis[req.eventoID].hasTables =>
                croquis[req.eventoID] = pre.croquis[req.eventoID]
C4_Witness ==
    /\ DeleteOk
    /\ \E s \in DOMAIN pre.seats : pre.seats[s].areaID = req.areaID
    /\ req.eventoID \in DOMAIN pre.croquis
    /\ Len(pre.croquis[req.eventoID].tables) = 2
    /\ Len(croquis[req.eventoID].tables) = 1

\* C5: a DELETE (with well-formed positive ids) for an area that does not exist, or
\* whose venue is not the event's venue, answers 404 and writes nothing: areas,
\* seats and every layout document are what they were.
C5_DeleteForeignAreaIs404 ==
    /\ req.op = "DELETE"
    /\ Admitted
    /\ req.areaID > 0
    /\ req.eventoID > 0
    /\ \/ req.areaID \notin DOMAIN pre.areas
       \/ req.eventoID \notin Eventos
       \/ pre.areas[req.areaID].lugarID # EventoLugar[req.eventoID]
    => resp.status = 404 /\ Rows(DB) = Rows(pre)
C5_Witness ==
    /\ req.op = "DELETE"
    /\ req.eventoID \in Eventos
    /\ req.areaID \in DOMAIN pre.areas
    /\ pre.areas[req.areaID].lugarID # EventoLugar[req.eventoID]
    /\ \E s \in DOMAIN pre.seats : pre.seats[s].areaID = req.areaID
    /\ req.eventoID \in DOMAIN pre.croquis
    /\ \E i \in DOMAIN pre.croquis[req.eventoID].tables :
            pre.croquis[req.eventoID].tables[i].areaid = Num(req.areaID)
    /\ resp.status = 404

\* C6: in a PUT layout, a descriptor of an existing seat whose seat no longer exists,
\* or whose seat lies in an area of another venue than the event's, leaves that seat
\* as it was and does not fail the request: the request ends as it would without
\* the descriptor, with every other item applied and committed.
StaleDesc(a) ==
    /\ ~NewDesc(a)
    /\ IsNum(a.asientoID)
    /\ IF Val(a.asientoID) \in DOMAIN pre.seats
       THEN pre.areas[pre.seats[Val(a.asientoID)].areaID].lugarID
                # EventoLugar[req.eventoID]
       ELSE Val(a.asientoID) < pre.nextSeatID
StaleDescs == {k \in DOMAIN req.asientos : StaleDesc(req.asientos[k])}
WithoutStale == SelectSeq(req.asientos, LAMBDA a : ~StaleDesc(a))
C6_StaleSeatsAreSkipped ==
    PutDone /\ Admitted /\ resp.status \notin {400, 404} /\ ~log.fault /\ StaleDescs # {} =>
        LET others == Reconcile(pre, [req EXCEPT !.asientos = WithoutStale], 0) IN
        /\ resp.status = IF others.err THEN 500 ELSE 200
        /\ resp.status = 200 => Rows(DB) = Rows(others)
        /\ \A k \in StaleDescs :
                Val(req.asientos[k].asientoID) \in DOMAIN pre.seats =>
                    /\ Val(req.asientos[k].asientoID) \in DOMAIN seats
                    /\ seats[Val(req.asientos[k].asientoID)]
                            = pre.seats[Val(req.asientos[k].asientoID)]
C6_Witness ==
    /\ PutOk
    /\ Len(req.asientos) = 2
    /\ StaleDesc(req.asientos[1])
    /\ Val(req.asientos[1].asientoID) \in DOMAIN pre.seats
    /\ ~StaleDesc(req.asientos[2])
    /\ HasSeat(2)
    /\ seats # pre.seats

\* C7: the layoutConfig and the seats of a successful PUT layout response are what a
\* GET of the same event's layout returns right after it.
C7_PutThenGetRoundTrip ==
    PutOk =>
        /\ GetResponse(DB, req.eventoID).status = 200
        /\ GetResponse(DB, req.eventoID).hasRow = resp.hasRow
        /\ GetResponse(DB, req.eventoID).layoutConfig = resp.layoutConfig
        /\ GetResponse(DB, req.eventoID).seats = resp.seats
C7_Witness ==
    /\ PutOk
    /\ resp.hasRow
    /\ Len(resp.layoutConfig.tables) >= 1
    /\ Len(resp.seats) >= 1
    /\ \E s \in DOMAIN seats :
            areas[seats[s].areaID].lugarID # EventoLugar[req.eventoID]

\* C8: when a statement of the PUT layout transaction fails, the request answers
\* 500 and the areas, seats and layout documents are what they were before it.
C8_FailedPutLeavesNoTrace ==
    req.op = "PUT" /\ (log.fault \/ resp.status = 500) =>
        resp.status = 500 /\ Rows(DB) = Rows(pre)
C8_Witness ==
    /\ PutDone
    /\ log.fault
    /\ log.dirty
    /\ resp.status = 500
    /\ FlaggedEntries # {}
    /\ Len(req.asientos) = 2

\* C9: after a successful PUT layout that supplies a document, the areaid of every
\* table entry of the event's persisted document is the id of an existing Area row.
C9_PersistedAreaidsExist ==
    PutOk /\ req.config.kind = "object" =>
        \A i \in DOMAIN Persisted :
            IsNum(Persisted[i].areaid) /\ Val(Persisted[i].areaid) \in DOMAIN areas

\* C10: every seat row created by a PUT layout for event E lies in an area of E's venue.
C10_NewSeatsInEventVenue ==
    PutOk =>
        \A s \in DOMAIN seats \ DOMAIN pre.seats :
            areas[seats[s].areaID].lugarID = EventoLugar[req.eventoID]

\* C11: in every state a successful PUT layout leaves, a table entry of an event's
\* persisted layout document that references an existing area references an area of
\* the event's venue.
C11_LayoutAreasInEventVenue ==
    PutOk =>
    \A e \in DOMAIN croquis :
        \A i \in DOMAIN croquis[e].tables :
            /\ IsNum(croquis[e].tables[i].areaid)
            /\ Val(croquis[e].tables[i].areaid) \in DOMAIN areas
            => areas[Val(croquis[e].tables[i].areaid)].lugarID = EventoLugar[e]

\* C12: in a PUT layout, a new-seat descriptor whose area reference, after the
\* temporary-area rewrite, is absent, not positive or not the id of an existing area
\* is skipped: the request ends as it would without that descriptor, and succeeds
\* and commits when the rest of it does.
AfterAreaLoop ==
    IF req.config.kind = "object" /\ req.config.hasTables
    THEN AreaLoop(1, StartTx(pre, req), EventoLugar[req.eventoID], 0)
    ELSE StartTx(pre, req)
UnresolvedDescs ==
    {k \in DOMAIN req.asientos :
        LET a == AfterAreaLoop.asientos[k] IN
        /\ NewDesc(a)
        /\ \/ a.areaID = Undef
           \/ Val(a.areaID) <= 0
           \/ Val(a.areaID) \notin DOMAIN AfterAreaLoop.areas}
RECURSIVE DropAt(_, _, _)
DropAt(list, K, k) ==
    IF k > Len(list) THEN <<>>
    ELSE (IF k \in K THEN <<>> ELSE <<list[k]>>) \o DropAt(list, K, k + 1)
C12_UnresolvedNewSeatsAreSkipped ==
    /\ PutDone /\ Admitted /\ req.eventoID \in Eventos
    /\ req.isArray /\ req.config.kind # "invalid"
    /\ ~log.fault
    /\ UnresolvedDescs # {}
    => LET others == Reconcile(pre, [req EXCEPT !.asientos = DropAt(@, UnresolvedDescs, 1)], 0)
       IN /\ resp.status = IF others.err THEN 500 ELSE 200
          /\ resp.status = 200 => Rows(DB) = Rows(others)

\* C13: a PUT layout or a GET layout for an eventoID that has no Evento row answers
\* 404, opens no transaction and leaves every table and sequence as it was.
C13_UnknownEventIs404 ==
    /\ req.op \in {"PUT", "GET"}
    /\ req.user.token = "valid"
    /\ req.user.role = "ORGANIZADOR"
    /\ req.eventoID \notin Eventos
    => resp.status = 404 /\ DB = pre /\ log = NoLog
C13_Witness ==
    /\ req.op = "PUT"
    /\ req.eventoID \notin Eventos
    /\ FlaggedEntries # {}
    /\ Len(req.asientos) > 0
    /\ DOMAIN pre.areas # {}
    /\ resp.status = 404

\* C14: a PUT layout for an existing event whose seat list is missing or not an
\* array, or whose configuracionCroquis is present but null or not an object,
\* answers 400 and leaves every table and sequence as it was.
C14_MalformedBodyIs400 ==
    /\ req.op = "PUT"
    /\ req.user.token = "valid"
    /\ req.user.role = "ORGANIZADOR"
    /\ req.eventoID \in Eventos
    /\ ~req.isArray \/ req.config.kind = "invalid"
    => resp.status = 400 /\ DB = pre /\ log = NoLog
C14_Witness ==
    /\ req.op = "PUT"
    /\ req.eventoID \in Eventos
    /\ ~req.isArray
    /\ FlaggedEntries # {}
    /\ resp.status = 400

\* C15: a PUT layout whose body is well shaped but whose layout document has a
\* tables field that is not a list, or one of whose seat descriptors has no state,
\* answers a 4xx client error and changes no row.
C15_MalformedContentIs4xx ==
    /\ req.op = "PUT"
    /\ req.user.token = "valid"
    /\ req.user.role = "ORGANIZADOR"
    /\ req.eventoID \in Eventos
    /\ req.isArray /\ req.config.kind # "invalid"
    /\ \/ req.config.badTables
       \/ \E k \in DOMAIN req.asientos : req.asientos[k].estado = Undef
    => resp.status \in 400..499 /\ Rows(DB) = Rows(pre)

\* C16: a PUT layout or DELETE area request whose caller has no valid token, no role,
\* or a role other than ORGANIZADOR / ADMINISTRADOR (in any letter case) is answered
\* 401 or 403 (403 for a role that is not admitted, 401 for a missing token or role),
\* runs no handler and changes nothing; callers with those roles pass, and GET layout
\* also lets ASISTENTE pass.
EditorRoles == {"ORGANIZADOR", "organizador", "ADMINISTRADOR", "administrador"}
ReaderRoles == EditorRoles \cup {"ASISTENTE", "asistente"}
C16_RoleGate ==
    /\ /\ req.op \in {"PUT", "DELETE"}
       /\ ~(req.user.token = "valid" /\ req.user.role \in EditorRoles)
       => /\ resp.status \in {401, 403}
          /\ req.user.token = "valid" /\ req.user.role # "" => resp.status = 403
          /\ req.user.token = "none" \/ (req.user.token = "valid" /\ req.user.role = "")
                => resp.status = 401
          /\ DB = pre
          /\ log = NoLog
    /\ /\ req.op \in {"PUT", "DELETE"}
       /\ req.user.token = "valid" /\ req.user.role \in EditorRoles
       => resp.status \notin {401, 403}
    /\ req.op = "GET" =>
            IF req.user.token = "valid" /\ req.user.role \in ReaderRoles
            THEN resp.status \notin {401, 403}
            ELSE resp.status \in {401, 403}
C16_Witness ==
    /\ req.op = "PUT"
    /\ req.user.token = "valid"
    /\ req.user.role = "asistente"
    /\ req.eventoID \in Eventos
    /\ FlaggedEntries # {}
    /\ resp.status = 403

\* C20: no 5xx response of PUT layout or DELETE area carries the text of the
\* internal error.
C20_ServerErrorsAreOpaque ==
    req.op \in {"PUT", "DELETE"} /\ resp.status >= 500 => ~resp.detail

----------------------------------------------------------------------------
(* Claims about the concurrent handlers (specification ConcurrentSpec).     *)

Finished(c) == cl[c].pc = "done"
FinishedPut(c) == Finished(c) /\ cl[c].op = "PUT"

\* what holds of one handler's connection in every state
ConnectionDiscipline(c) ==
    /\ cl[c].acquired <= 1
    /\ cl[c].released <= cl[c].acquired
    /\ cl[c].held <=> (cl[c].acquired = 1 /\ cl[c].released = 0)
    /\ cl[c].txn = "open" => cl[c].held
    /\ cl[c].released = 1 => cl[c].txn \in {"none", "committed", "rolledback"}
    /\ Finished(c) =>
            /\ cl[c].released = cl[c].acquired
            /\ cl[c].status # 0
            /\ cl[c].status = 200 => cl[c].txn = "committed"
            /\ cl[c].acquired = 1 /\ cl[c].status # 200 =>
                    cl[c].txn \in {"none", "rolledback", "committed"}

BothPutsSucceeded(e) ==
    \A c \in Clients : FinishedPut(c) /\ cl[c].eventoID = e /\ cl[c].status = 200
\* the client whose transaction committed last
LastCommitter == CHOOSE c \in Clients : \A o \in Clients : cl[o].committedAt <= cl[c].committedAt
\* the two transactions ran at the same time
Overlapped ==
    \A c \in Clients : cl[c].beganAt # 0 /\ cl[c].beganAt < cl[3 - c].committedAt

\* C19: two PUT layout requests for one event are not excluded from running
\* at the same time; when both are answered 200 the event's single Croquis row
\* holds the document of the request that committed last, and the other
\* request's document is gone although it was answered 200 too.
C19_LastWriterWins ==
    \A e \in Eventos :
        BothPutsSucceeded(e) =>
            /\ Cardinality(RowsOf(e)) = 1
            /\ \A id \in RowsOf(e) : docs[id].configuracion = cl[LastCommitter].doc
C19_Witness ==
    /\ BothPutsSucceeded(1)
    /\ Overlapped
    /\ cl[1].seen /\ cl[2].seen
    /\ cl[1].doc = DocA /\ cl[2].doc = DocB
    /\ cl[1].error = "" /\ cl[2].error = ""
    /\ \A id \in RowsOf(1) : docs[id].configuracion = DocB

----------------------------------------------------------------------------
\* C21: PUT layout deletes no Area row and no Asiento row: every area and seat
\* that existed before the request exists after it, seats left out of the
\* seat list and areas the submitted document no longer references included;
\* rows disappear only through DELETE area and its cascade.
C21_PutDeletesNoRows ==
    /\ PutDone =>
            /\ \A a \in DOMAIN pre.areas : a \in DOMAIN areas /\ areas[a] = pre.areas[a]
            /\ DOMAIN pre.seats \subseteq DOMAIN seats
    /\ req.op \notin {"NONE", "DELETE"} =>
            /\ DOMAIN pre.areas \subseteq DOMAIN areas
            /\ DOMAIN pre.seats \subseteq DOMAIN seats
C21_Witness ==
    /\ PutOk
    /\ req.config.kind = "object" /\ req.config.hasTables
    /\ Rows(DB) # Rows(pre)
    /\ \E a \in DOMAIN pre.areas :
            \A i \in DOMAIN Submitted : Submitted[i].areaid # Num(a)
    /\ \E s \in DOMAIN pre.seats :
            /\ \A k \in DOMAIN req.asientos : req.asientos[k].asientoID # Num(s)
            /\ s \in DOMAIN seats

\* C22: PUT layout rewrites the area reference of a seat descriptor only when the
\* reference equals the temporary area id of a flagged table entry; a descriptor
\* whose reference is absent or is the id of a persisted area goes through the
\* area loop as it was submitted and is not moved to a newly created area.
TempIdsOfFlagged == {Submitted[i].areaid : i \in FlaggedEntries} \ {Undef}
C22_OnlyTempReferencesRewritten ==
    PutOk =>
        \A k \in DOMAIN req.asientos :
            \/ \E T \in TempIdsOfFlagged : req.asientos[k].areaID = T
            \/ AfterAreaLoop.asientos[k] = req.asientos[k]

\* C23: for an existing seat PUT layout changes nothing but the state: code, row,
\* column and area of every seat are what they were, also when the descriptor
\* carries other values for them, and a seat no descriptor names is unchanged.
Named(s) == \E k \in DOMAIN req.asientos : req.asientos[k].asientoID = Num(s)
C23_OnlyStateOfExistingSeatChanges ==
    PutDone =>
        \A s \in DOMAIN pre.seats :
            /\ s \in DOMAIN seats
            /\ seats[s].codigo = pre.seats[s].codigo
            /\ seats[s].fila = pre.seats[s].fila
            /\ seats[s].columna = pre.seats[s].columna
            /\ seats[s].areaID = pre.seats[s].areaID
            /\ ~Named(s) => seats[s] = pre.seats[s]
C23_Witness ==
    /\ PutOk
    /\ \E k \in DOMAIN req.asientos :
        /\ ~NewDesc(req.asientos[k])
        /\ Val(req.asientos[k].asientoID) \in DOMAIN pre.seats
        /\ LET s == Val(req.asientos[k].asientoID) IN
            /\ seats[s].estado # pre.seats[s].estado
            /\ req.asientos[k].codigo # seats[s].codigo
            /\ req.asientos[k].fila # seats[s].fila
            /\ req.asientos[k].columna # seats[s].columna
            /\ req.asientos[k].areaID # Num(seats[s].areaID)
    /\ \E s \in DOMAIN pre.seats : ~Named(s)

\* C24: a PUT layout without configuracionCroquis leaves every layout document as
\* it was (no row inserted, updated or removed) and creates no area, while its
\* seat list is processed and committed.
C24_NoDocumentNoLayoutChange ==
    PutDone /\ Admitted /\ req.config.kind = "undefined" =>
        /\ croquis = pre.croquis
        /\ areas = pre.areas
        /\ resp.status = 200 =>
            /\ log.committed
            /\ seats = SeatLoop(1, StartTx(pre, req), EventoLugar[req.eventoID], 0).seats
C24_Witness ==
    /\ PutOk
    /\ req.config.kind = "undefined"
    /\ req.eventoID \in DOMAIN pre.croquis
    /\ Len(pre.croquis[req.eventoID].tables) > 0
    /\ seats # pre.seats

\* C25: PUT layout creates a seat for a descriptor exactly when the descriptor
\* carries the isNew marker or its asientoID is absent, a string, or a number
\* above 1000000000; every other descriptor is handled as an existing seat.
\* (Stated for requests that nothing else stops: the body is well formed, no
\* table entry is flagged, every descriptor has a state and the descriptors to
\* create name an existing area.)
SpecNew(a) ==
    a.isNew \/ a.asientoID = Undef \/ IsStrId(a.asientoID) \/ IsBig(a.asientoID)
\* descriptor k made the request insert a seat row: the row it wrote did not
\* exist before the request and no earlier descriptor of the request wrote it
Created(k) ==
    /\ HasSeat(k)
    /\ Val(log.seatOf[k]) \notin DOMAIN pre.seats
    /\ \A j \in 1..(k - 1) : log.seatOf[j] # log.seatOf[k]
C25_NewSeatDetection ==
    /\ PutDone /\ Admitted /\ req.eventoID \in Eventos
    /\ req.isArray /\ req.config.kind # "invalid"
    /\ ~log.fault
    /\ FlaggedEntries = {}
    /\ \A k \in DOMAIN req.asientos :
            /\ req.asientos[k].estado # Undef
            /\ SpecNew(req.asientos[k]) =>
                    /\ IsNum(req.asientos[k].areaID)
                    /\ Val(req.asientos[k].areaID) \in DOMAIN pre.areas
    => /\ resp.status = 200
       /\ \A k \in DOMAIN req.asientos : SpecNew(req.asientos[k]) <=> Created(k)

\* C26: re-submitting through PUT layout the document a previous successful PUT
\* stored and returned for the event, when all its table ids are 'area-<id>' and
\* all its areaids are real (at most 1000000000), creates no Area row and leaves
\* the persisted document, and the returned one, equal to the submitted one.
Resubmission ==
    /\ PutOk
    /\ req.eventoID \in DOMAIN pre.croquis
    /\ req.config = pre.croquis[req.eventoID]
    /\ req.config.kind = "object" /\ req.config.hasTables
    /\ \A i \in DOMAIN req.config.tables :
            /\ req.config.tables[i].id # Undef
            /\ req.config.tables[i].id[1] = "area-"
            /\ IsNum(req.config.tables[i].areaid)
            /\ Val(req.config.tables[i].areaid) <= MaxRealId
C26_ResubmittedLayoutIsFixpoint ==
    Resubmission =>
        /\ areas = pre.areas
        /\ nextAreaID = pre.nextAreaID
        /\ croquis = pre.croquis
        /\ croquis[req.eventoID] = req.config
        /\ resp.layoutConfig = req.config
C26_Witness ==
    /\ Resubmission
    /\ Len(req.config.tables) >= 1
    /\ nextAreaID <= MaxAreaID
    /\ seats # pre.seats

\* C29: DELETE area changes no layout document but the one of the event named in
\* the request: the documents of all other events, those of the same venue whose
\* entries reference the deleted area included, are what they were.
C29_DeleteTouchesOnlyItsEventsLayout ==
    req.op = "DELETE" =>
        /\ DOMAIN croquis = DOMAIN pre.croquis
        /\ \A e \in DOMAIN pre.croquis \ {req.eventoID} : croquis[e] = pre.croquis[e]
C29_Witness ==
    /\ DeleteOk
    /\ req.areaID \notin DOMAIN areas
    /\ \E e \in DOMAIN pre.croquis \ {req.eventoID} :
            /\ EventoLugar[e] = EventoLugar[req.eventoID]
            /\ \E i \in DOMAIN croquis[e].tables :
                    croquis[e].tables[i].areaid = Num(req.areaID)

\* C27: the layoutConfig and the seats of a PUT layout response with status 200
\* are the state this request committed, whatever other PUT layout or DELETE
\* area requests commit for the event between its COMMIT and its re-read.
C27_ResponseIsOwnCommit ==
    \A c \in Clients :
        FinishedPut(c) /\ cl[c].status = 200 =>
            /\ cl[c].layoutConfig = cl[c].doc
            /\ cl[c].seats = cl[c].seatsAtCommit

\* C28: a PUT layout or DELETE area request that answers with an error status
\* leaves areas, seats and layout documents as they were before it, also when
\* the failure is in the re-read after COMMIT.  (Stated for the first request
\* of a behaviour, which starts from the seed tables and runs alone.)
C28_ErrorLeavesTablesAsBefore ==
    \A c \in Clients :
        nJobs = 1 /\ Finished(c) /\ cl[c].status >= 400 =>
            /\ docs = <<>>
            /\ areas = SeedAreas
            /\ seats = SeedSeats

\* C30: of two concurrent DELETE requests for the same existing area, one answers
\* 200 and the other 404 after rolling back; the area and its seats are gone and
\* the event's layout document has no entry for the area.
BothDeletesOf(e, a) ==
    \A c \in Clients :
        /\ Finished(c) /\ cl[c].op = "DELETE" /\ cl[c].error = ""
        /\ cl[c].eventoID = e /\ cl[c].areaID = a
\* no other transaction committed while w's transaction was open
Undisturbed(w) ==
    \A i \in cl[w].beganAt..cl[w].committedAt :
        hist[i][1] = "commit" => hist[i][2] = w
\* l's transaction had begun when w's committed
RanInto(l, w) ==
    cl[l].beganAt # 0 /\ cl[w].committedAt # 0 /\ cl[l].beganAt < cl[w].committedAt
AreaGone(e, a) ==
    /\ a \notin DOMAIN areas
    /\ \A s \in DOMAIN seats : seats[s].areaID # a
    /\ \A id \in RowsOf(e) :
            \A i \in DOMAIN docs[id].configuracion.tables :
                docs[id].configuracion.tables[i].areaid # Num(a)
C30_ConcurrentDeletesOneWins ==
    /\ BothDeletesOf(1, 1) /\ nJobs = 2 =>
            \E w \in Clients :
                /\ cl[w].status = 200
                /\ cl[3 - w].status = 404 /\ cl[3 - w].txn = "rolledback"
                /\ AreaGone(1, 1)
    /\ \A w \in Clients :
            /\ BothDeletesOf(1, 1)
            /\ cl[w].status = 200
            /\ RanInto(3 - w, w)
            /\ Undisturbed(w)
            => /\ cl[3 - w].status = 404 /\ cl[3 - w].txn = "rolledback"
               /\ AreaGone(1, 1)
C30_Witness ==
    /\ BothDeletesOf(1, 1)
    /\ cl[1].status = 200
    /\ RanInto(2, 1) /\ Undisturbed(1)
    /\ cl[2].status = 404 /\ cl[2].message = "No se pudo eliminar el Area."
    /\ cl[2].txn = "rolledback"
    /\ RowsOf(1) # {}
    /\ AreaGone(1, 1)

====
